---- MODULE Spec2Model ----
(***************************************************************************)
(* Model of euler/numeric.py (large-number string arithmetic) and of the   *)
(* prime cache of euler/primes.py.                                         *)
(*                                                                         *)
(* A Python str is a sequence of one-character strings.  A Python int is   *)
(* a record [neg, mag] with mag the decimal digits, least significant      *)
(* first, without high zeros (so zero is [neg |-> FALSE, mag |-> <<>>]):   *)
(* Python ints are unbounded, so no width is imposed on them.              *)
(***************************************************************************)
EXTENDS Integers, Sequences, FiniteSets, TLC

VARIABLES call, _primes, curr_upper_bound

vars == <<call, _primes, curr_upper_bound>>

(***************************************************************************)
(* Sequences                                                               *)
(***************************************************************************)
Min(m, n) == IF m <= n THEN m ELSE n

Max(m, n) == IF m >= n THEN m ELSE n

\* a list comprehension, evaluated once into a tuple
AsList(f) == f \o <<>>

Rev(s) == AsList([i \in 1..Len(s) |-> s[Len(s) + 1 - i]])

Rep(c, n) == AsList([i \in 1..n |-> c])

RECURSIVE ConcatBetween(_, _, _)
ConcatBetween(ss, lo, hi) ==
    IF lo > hi THEN <<>>
    ELSE IF lo = hi THEN ss[lo]
    ELSE ConcatBetween(ss, lo, (lo + hi) \div 2) \o ConcatBetween(ss, (lo + hi) \div 2 + 1, hi)

\* ''.join(ss)
Concat(ss) == ConcatBetween(ss, 1, Len(ss))

(***************************************************************************)
(* Python int: unbounded signed integers                                   *)
(***************************************************************************)
\* m without its high zeros
Norm(m) ==
    SubSeq(m, 1, CHOOSE n \in 0..Len(m) :
                     (n = 0 \/ m[n] # 0) /\ \A i \in (n + 1)..Len(m) : m[i] = 0)

DigitAt(x, i) == IF i >= 1 /\ i <= Len(x) THEN x[i] ELSE 0

\* the carry into digit i of x + y: a lower digit pair overflows and every
\* pair in between passes the carry on
CarryInto(x, y, i) ==
    \E j \in 1..(i - 1) :
        /\ DigitAt(x, j) + DigitAt(y, j) >= 10
        /\ \A l \in (j + 1)..(i - 1) : DigitAt(x, l) + DigitAt(y, l) = 9

NatAdd(x, y) ==
    Norm(AsList([i \in 1..(Max(Len(x), Len(y)) + 1) |->
                    (DigitAt(x, i) + DigitAt(y, i)
                       + (IF CarryInto(x, y, i) THEN 1 ELSE 0)) % 10]))

\* the borrow from digit i of x - y
BorrowFrom(x, y, i) ==
    \E j \in 1..(i - 1) :
        /\ DigitAt(x, j) < DigitAt(y, j)
        /\ \A l \in (j + 1)..(i - 1) : DigitAt(x, l) = DigitAt(y, l)

\* x - y on magnitudes, for x >= y
NatSub(x, y) ==
    Norm(AsList([i \in 1..Len(x) |->
                    (10 + DigitAt(x, i) - DigitAt(y, i)
                       - (IF BorrowFrom(x, y, i) THEN 1 ELSE 0)) % 10]))

NatLess(x, y) ==
    IF Len(x) # Len(y) THEN Len(x) < Len(y)
    ELSE \E i \in 1..Len(x) : x[i] < y[i] /\ \A j \in (i + 1)..Len(x) : x[j] = y[j]

\* the sum of x[i] * y[k + 1 - i] for i in lo..hi
RECURSIVE ColumnSum(_, _, _, _, _)
ColumnSum(x, y, k, lo, hi) ==
    IF lo > hi THEN 0
    ELSE IF lo = hi THEN DigitAt(x, lo) * DigitAt(y, k + 1 - lo)
    ELSE ColumnSum(x, y, k, lo, (lo + hi) \div 2)
           + ColumnSum(x, y, k, (lo + hi) \div 2 + 1, hi)

\* the columns of the long multiplication of x by y, before any carry
Columns(x, y) ==
    AsList([k \in 1..(Len(x) + Len(y) - 1) |->
               ColumnSum(x, y, k, Max(1, k + 1 - Len(y)), Min(k, Len(x)))])

\* the number whose digit k is the decimal digit of weight 10^p of column k
ColumnDigits(cols, p) == Norm(AsList([k \in 1..Len(cols) |-> (cols[k] \div (10 ^ p)) % 10]))

\* 10^p * x
NatShift(x, p) == IF x = <<>> THEN <<>> ELSE Rep(0, p) \o x

\* the value of the columns from the decimal digits of weight 10^p on
RECURSIVE ColumnsValue(_, _)
ColumnsValue(cols, p) ==
    IF \A k \in 1..Len(cols) : cols[k] < 10 ^ p THEN <<>>
    ELSE NatAdd(NatShift(ColumnDigits(cols, p), p), ColumnsValue(cols, p + 1))

NatMul(x, y) == IF x = <<>> \/ y = <<>> THEN <<>> ELSE ColumnsValue(Columns(x, y), 0)

NatPow10(k) == AsList([i \in 1..(k + 1) |-> IF i = k + 1 THEN 1 ELSE 0])

\* x mod 10^k and x div 10^k
NatMod10(x, k) == Norm(SubSeq(x, 1, Min(k, Len(x))))

NatDiv10(x, k) == IF Len(x) <= k THEN <<>> ELSE SubSeq(x, k + 1, Len(x))

NatDouble(x) == NatAdd(x, x)

NatSquare(x) == NatMul(x, x)

NatSucc(x) == NatAdd(x, <<1>>)

\* 2^n as a magnitude
RECURSIVE NatPow2(_)
NatPow2(n) ==
    IF n = 0 THEN <<1>>
    ELSE IF n % 2 = 1 THEN NatDouble(NatPow2(n - 1))
    ELSE NatSquare(NatPow2(n \div 2))

\* the largest k in lo..hi with 2^k <= x, given 2^lo <= x
RECURSIVE NatLog2Between(_, _, _)
NatLog2Between(x, lo, hi) ==
    IF lo >= hi THEN lo
    ELSE IF NatLess(x, NatPow2((lo + hi + 1) \div 2))
    THEN NatLog2Between(x, lo, (lo + hi + 1) \div 2 - 1)
    ELSE NatLog2Between(x, (lo + hi + 1) \div 2, hi)

\* floor(log2(x)) for x >= 1; x < 10^Len(x) < 2^(4 * Len(x))
NatLog2(x) == NatLog2Between(x, 0, 4 * Len(x))

IntZero == [neg |-> FALSE, mag |-> <<>>]

MkInt(neg, mag) == [neg |-> neg /\ mag # <<>>, mag |-> mag]

\* a small machine integer as a Python int
RECURSIVE NatOfSmall(_)
NatOfSmall(n) == IF n = 0 THEN <<>> ELSE <<n % 10>> \o NatOfSmall(n \div 10)

IntOfSmall(n) == IF n < 0 THEN MkInt(TRUE, NatOfSmall(-n)) ELSE MkInt(FALSE, NatOfSmall(n))

\* a Python int known to be small, as a machine integer
RECURSIVE SmallOfNat(_)
SmallOfNat(m) == IF m = <<>> THEN 0 ELSE Head(m) + 10 * SmallOfNat(Tail(m))

SmallOfInt(x) == IF x.neg THEN -SmallOfNat(x.mag) ELSE SmallOfNat(x.mag)

IntAdd(x, y) ==
    IF x.neg = y.neg THEN MkInt(x.neg, NatAdd(x.mag, y.mag))
    ELSE IF NatLess(x.mag, y.mag) THEN MkInt(y.neg, NatSub(y.mag, x.mag))
    ELSE MkInt(x.neg, NatSub(x.mag, y.mag))

IntNeg(x) == MkInt(~x.neg, x.mag)

IntSub(x, y) == IntAdd(x, IntNeg(y))

IntMul(x, y) == MkInt(x.neg # y.neg, NatMul(x.mag, y.mag))

IntLess(x, y) ==
    IF x.neg # y.neg THEN x.neg
    ELSE IF x.neg THEN NatLess(y.mag, x.mag)
    ELSE NatLess(x.mag, y.mag)

IntPow10(k) == MkInt(FALSE, NatPow10(k))

\* x % 10^k for x >= 0 (every dividend of the program is non-negative)
IntMod10(x, k) == MkInt(FALSE, NatMod10(x.mag, k))

(***************************************************************************)
(* int(x / 10^k) for x >= 0.  Python's int / int is the exact quotient     *)
(* rounded once to the nearest IEEE double (ties to even); int() then      *)
(* truncates.  With q = x div 10^k and r = x mod 10^k the double is q + 1  *)
(* exactly when the quotient lies within half a unit in the last place     *)
(* below q + 1, i.e. (10^k - r) * 2^e <= 10^k, where e = 53 - floor(log2(  *)
(* q + 1)), one more when q + 1 is a power of two (the doubles just below  *)
(* a power of two are spaced twice as finely).  Valid for q + 1 < 2^53.    *)
(***************************************************************************)
\* d * 2^e <= m
ScaledWithin(d, e, m) == ~NatLess(m, NatMul(d, NatPow2(Max(e, 0))))

\* m = 10^k, d = 10^k - r, q1 = q + 1, lg = floor(log2(q1))
RoundsUpWithin(m, d, q1, lg) ==
    ScaledWithin(d, IF q1 = NatPow2(lg) THEN 54 - lg ELSE 53 - lg, m)

RoundsUpToNext(q, r, k) ==
    /\ r # <<>>
    /\ RoundsUpWithin(NatPow10(k), NatSub(NatPow10(k), r), NatSucc(q), NatLog2(NatSucc(q)))

RoundedQuotient(q, r, k) ==
    IF RoundsUpToNext(q, r, k) THEN MkInt(FALSE, NatSucc(q)) ELSE MkInt(FALSE, q)

IntTrueDivFloatPow10(x, k) == RoundedQuotient(NatDiv10(x.mag, k), NatMod10(x.mag, k), k)

(***************************************************************************)
(* Python str                                                              *)
(***************************************************************************)
DigitChars == <<"0", "1", "2", "3", "4", "5", "6", "7", "8", "9">>

CharOfDigit(d) == DigitChars[d + 1]

DigitOfChar(c) == CHOOSE d \in 0..9 : DigitChars[d + 1] = c

IsDigitString(s) == \A i \in 1..Len(s) : \E d \in 0..9 : DigitChars[d + 1] = s[i]

\* the number of '0' characters s starts with
LeadingZeros(s) ==
    CHOOSE k \in 0..Len(s) : (k = Len(s) \/ s[k + 1] # "0") /\ \A i \in 1..k : s[i] = "0"

\* s.lstrip('0')
Lstrip0(s) == SubSeq(s, LeadingZeros(s) + 1, Len(s))

\* s.startswith('-')
StartsWithMinus(s) == s # <<>> /\ Head(s) = "-"

\* s.zfill(width): the zeros go after a leading sign
Zfill(s, width) ==
    IF Len(s) >= width THEN s
    ELSE IF StartsWithMinus(s) THEN <<"-">> \o Rep("0", width - Len(s)) \o Tail(s)
    ELSE Rep("0", width - Len(s)) \o s

StrOfNat(mag) ==
    IF mag = <<>> THEN <<"0">>
    ELSE AsList([i \in 1..Len(mag) |-> CharOfDigit(mag[Len(mag) + 1 - i])])

\* str(x)
StrOfInt(x) == IF x.neg THEN <<"-">> \o StrOfNat(x.mag) ELSE StrOfNat(x.mag)

NatOfDigits(body) ==
    Norm(AsList([i \in 1..Len(body) |-> DigitOfChar(body[Len(body) + 1 - i])]))

\* int(s), for a non-empty digit string with an optional leading '-'
IntOfStr(s) ==
    MkInt(StartsWithMinus(s), NatOfDigits(IF StartsWithMinus(s) THEN Tail(s) ELSE s))

(***************************************************************************)
(* LargeNumberOpUtils: the chunk codec.  cs is cls._chunk_size.            *)
(***************************************************************************)
FirstDegreeChunkSize == 18

\* a multiplication chunk one digit wider than _chunk_size = 9
WideMulChunkSize == 9 + 1

MulChunkSize == 9

\* int(str_len / cs) is exact for string lengths
compute_divisible_len(cs, str_len) == ((str_len \div cs) + 1) * cs

_compute_target_len(cs, len_a, len_b) == compute_divisible_len(cs, Max(len_a, len_b))

\* [num[i:i + cs] for i in range(0, target_len, cs)]
SplitChunks(cs, num, target_len) ==
    AsList([j \in 1..(target_len \div cs) |->
               SubSeq(num, Min((j - 1) * cs + 1, Len(num) + 1), Min(j * cs, Len(num)))])

_pad_split_and_reverse(cs, num, target_len) ==
    Rev(SplitChunks(cs, Zfill(num, target_len), target_len))

\* map(int, chunks)
MapInt(chunks) == AsList([i \in 1..Len(chunks) |-> IntOfStr(chunks[i])])

\* _make_chunks once a and b are stripped
MakeChunksStripped(cs, a, b, target_len) ==
    <<MapInt(_pad_split_and_reverse(cs, a, target_len)),
      MapInt(_pad_split_and_reverse(cs, b, target_len))>>

_make_chunks(cs, a, b) ==
    MakeChunksStripped(cs, Lstrip0(a), Lstrip0(b),
                       _compute_target_len(cs, Len(Lstrip0(a)), Len(Lstrip0(b))))

(***************************************************************************)
(* LargeNumberFirstDegreeOpUtils.  _op_chunks returns (total, carry); the  *)
(* field ints records every integer the call computed on the way.          *)
(***************************************************************************)
OpChunksResult(total, carry, others) ==
    [total |-> total, carry |-> carry, ints |-> {total, carry} \cup others]

\* Add._op_chunks from its first assignment on
AddTotal(total) ==
    OpChunksResult(IntMod10(total, FirstDegreeChunkSize),
                   IntTrueDivFloatPow10(total, FirstDegreeChunkSize), {total})

Add_op_chunks(chunk1, chunk2) == AddTotal(IntAdd(chunk1, chunk2))

\* Subtract._op_chunks once chunk1 has its final value
SubtractFrom(chunk1, chunk2, carry) ==
    OpChunksResult(IntSub(chunk1, chunk2), carry, {chunk1})

Subtract_op_chunks(chunk1, chunk2) ==
    IF IntLess(chunk1, chunk2)
    THEN SubtractFrom(IntAdd(chunk1, IntPow10(FirstDegreeChunkSize)), chunk2, IntOfSmall(-1))
    ELSE SubtractFrom(chunk1, chunk2, IntZero)

_op_chunks(cls, chunk1, chunk2) ==
    IF cls = "add" THEN Add_op_chunks(chunk1, chunk2) ELSE Subtract_op_chunks(chunk1, chunk2)

\* [cls._op_chunks(chunk1, chunk2) for chunk1, chunk2 in zip(a, b)]
OpChunksZip(cls, a, b) ==
    AsList([i \in 1..Min(Len(a), Len(b)) |-> _op_chunks(cls, a[i], b[i])])

\* total + carry over zip(totals, carries): totals is the first items followed
\* by 0, carries is 0 followed by the second items
OperateSums(result) ==
    AsList([i \in 1..(Len(result) + 1) |->
               IntAdd(IF i <= Len(result) THEN result[i].total ELSE IntZero,
                      IF i = 1 THEN IntZero ELSE result[i - 1].carry)])

\* ''.join(c[::-1]).lstrip('0') for c the formatted sums
JoinSums(sums) ==
    Lstrip0(Concat(Rev(AsList([i \in 1..Len(sums) |->
                                  Zfill(StrOfInt(sums[i]), FirstDegreeChunkSize)]))))

OperateResult(result, sums) ==
    [str  |-> JoinSums(sums),
     ints |-> UNION {result[i].ints : i \in 1..Len(result)}
                \cup {sums[i] : i \in 1..Len(sums)}]

OperateOnResult(result) == OperateResult(result, OperateSums(result))

OperateOnChunks(cls, chunks) == OperateOnResult(OpChunksZip(cls, chunks[1], chunks[2]))

operate(cls, a, b) == OperateOnChunks(cls, _make_chunks(FirstDegreeChunkSize, a, b))

add(a, b) == operate("add", a, b)

(***************************************************************************)
(* Results of a call: what it returned or raised, the helper calls it made *)
(* in order (steps), the integers it computed (ints) and, for the          *)
(* multiplication, the running carries (carries).                          *)
(***************************************************************************)
Returned(value, steps, ints, carries) ==
    [kind |-> "return", value |-> value, steps |-> steps, ints |-> ints,
     carries |-> carries]

Raised(exception, steps) ==
    [kind |-> exception, value |-> <<>>, steps |-> steps, ints |-> {}, carries |-> {}]

(***************************************************************************)
(* LargeNumberSubtractOpUtils                                              *)
(***************************************************************************)
\* a _check_non_negative that lets a leading '-' pass
CheckNothing(num) == "ok"

_check_non_negative(num) == IF StartsWithMinus(num) THEN "ValueError" ELSE "ok"

\* _is_smaller once a and b are stripped: b[0] of an empty string raises
\* IndexError, int() of a character that is no digit raises ValueError
IsSmallerStripped(a, b) ==
    IF Len(b) > Len(a) THEN "True"
    ELSE IF Len(a) # Len(b) THEN "False"
    ELSE IF b = <<>> THEN "IndexError"
    ELSE IF ~IsDigitString(<<b[1]>>) \/ ~IsDigitString(<<a[1]>>) THEN "ValueError"
    ELSE IF DigitOfChar(b[1]) > DigitOfChar(a[1]) THEN "True"
    ELSE "False"

_is_smaller(a, b) == IsSmallerStripped(Lstrip0(a), Lstrip0(b))

SubtractSteps == <<"_check_non_negative", "_check_non_negative", "_is_smaller", "operate">>

\* return '-' + cls.operate(b, a)
ReturnNegated(r) == Returned(<<"-">> \o r.str, SubtractSteps, r.ints, {})

\* return cls.operate(a, b)
ReturnOperated(r) == Returned(r.str, SubtractSteps, r.ints, {})

\* subtract from the call of _is_smaller on, smaller being its outcome
SubtractCompared(a, b, smaller) ==
    IF smaller \in {"IndexError", "ValueError"} THEN Raised(smaller, SubSeq(SubtractSteps, 1, 3))
    ELSE IF smaller = "True" THEN ReturnNegated(operate("subtract", b, a))
    ELSE ReturnOperated(operate("subtract", a, b))

subtract(a, b) ==
    IF _check_non_negative(a) # "ok"
    THEN Raised(_check_non_negative(a), SubSeq(SubtractSteps, 1, 1))
    ELSE IF _check_non_negative(b) # "ok"
    THEN Raised(_check_non_negative(b), SubSeq(SubtractSteps, 1, 2))
    ELSE SubtractCompared(a, b, _is_smaller(a, b))

(***************************************************************************)
(* LargeNumberMulOpUtils                                                   *)
(***************************************************************************)
\* the loop of _mul_with_chunk from chunk i on; c holds the chunk strings so
\* far, ints and carries the integers and the carries computed so far
RECURSIVE MulLoop(_, _, _, _, _, _, _)
\* the rest of the loop body for chunk i once chunk_res and the new carry are computed
MulLoopBody(num, digit, i, chunk_res, carry, c, ints, carries) ==
    MulLoop(num, digit, i + 1, carry,
            Append(c, Zfill(StrOfInt(IntMod10(chunk_res, MulChunkSize)), MulChunkSize)),
            ints \cup {chunk_res, IntMod10(chunk_res, MulChunkSize), carry},
            carries \cup {carry})

\* the loop body for chunk i from the computation of chunk_res on
MulLoopChunk(num, digit, i, chunk_res, c, ints, carries) ==
    MulLoopBody(num, digit, i, chunk_res, IntTrueDivFloatPow10(chunk_res, MulChunkSize),
                c, ints, carries)

MulLoop(num, digit, i, carry, c, ints, carries) ==
    IF i > Len(num)
    THEN [str |-> Lstrip0(StrOfInt(carry) \o Concat(Rev(c))), ints |-> ints,
          carries |-> carries]
    ELSE MulLoopChunk(num, digit, i, IntAdd(IntMul(IntOfStr(num[i]), digit), carry),
                      c, ints, carries)

_mul_with_chunk(num, digit) == MulLoop(num, digit, 1, IntZero, <<>>, {}, {IntZero})

\* reduce(add, items) from item i on, acc being the sum so far
RECURSIVE ReduceAdd(_, _, _, _)
ReduceAddStep(items, i, r, ints) == ReduceAdd(items, i + 1, r.str, ints \cup r.ints)

ReduceAdd(items, i, acc, ints) ==
    IF i > Len(items) THEN [str |-> acc, ints |-> ints]
    ELSE ReduceAddStep(items, i, add(acc, items[i]), ints)

\* [cls._mul_with_chunk(b, int(chunk)) for chunk in a]
ChunkWiseRes(a, b) == AsList([i \in 1..Len(a) |-> _mul_with_chunk(b, IntOfStr(a[i]))])

\* [item + i * cls._chunk_size * '0' for i, item in enumerate(chunk_wise_res)]
ChunkWiseShifted(chunk_wise_res) ==
    AsList([i \in 1..Len(chunk_wise_res) |->
               chunk_wise_res[i].str \o Rep("0", (i - 1) * MulChunkSize)])

MultiplyResult(chunk_wise_res, sum) ==
    [str |-> sum.str,
     ints |-> sum.ints \cup UNION {chunk_wise_res[i].ints : i \in 1..Len(chunk_wise_res)},
     carries |-> UNION {chunk_wise_res[i].carries : i \in 1..Len(chunk_wise_res)}]

MultiplyShifted(chunk_wise_res, shifted) ==
    MultiplyResult(chunk_wise_res, ReduceAdd(shifted, 2, shifted[1], {}))

MultiplyChunkWise(chunk_wise_res) ==
    MultiplyShifted(chunk_wise_res, ChunkWiseShifted(chunk_wise_res))

\* multiply once target_len is computed
MultiplyPadded(a, b, target_len) ==
    MultiplyChunkWise(ChunkWiseRes(_pad_split_and_reverse(MulChunkSize, a, target_len),
                                   _pad_split_and_reverse(MulChunkSize, b, target_len)))

multiply(a, b) == MultiplyPadded(a, b, _compute_target_len(MulChunkSize, Len(a), Len(b)))

(***************************************************************************)
(* LargeNumberOpsHelper.large_number_pow: reduce(multiply, [num] * int(exp)) *)
(* without an initial value; reduce of an empty list raises TypeError.     *)
(***************************************************************************)
RECURSIVE ReduceMultiply(_, _, _, _, _)
ReduceMultiplyStep(items, i, r, ints, carries) ==
    ReduceMultiply(items, i + 1, r.str, ints \cup r.ints, carries \cup r.carries)

ReduceMultiply(items, i, acc, ints, carries) ==
    IF i > Len(items) THEN [str |-> acc, ints |-> ints, carries |-> carries]
    ELSE ReduceMultiplyStep(items, i, multiply(acc, items[i]), ints, carries)

ReturnReduced(r) == Returned(r.str, <<"reduce">>, r.ints, r.carries)

\* reduce(multiply, items)
ReduceItems(items) ==
    IF items = <<>> THEN Raised("TypeError", <<"reduce">>)
    ELSE ReturnReduced(ReduceMultiply(items, 2, items[1], {}, {}))

LargeNumberOpsHelper_large_number_pow(num, exp) ==
    ReduceItems(Rep(num, Max(SmallOfInt(IntOfStr(exp)), 0)))

(***************************************************************************)
(* euler/utils/sequence_generators.py is not part of the sources at hand:  *)
(* PrimeNumberSequenceGenerator.generate(n) is the ascending sequence of   *)
(* all primes <= n.                                                        *)
(***************************************************************************)
Isqrt(n) == CHOOSE r \in 0..n : r * r <= n /\ (r + 1) * (r + 1) > n

\* p has no divisor among the primes in small, which holds every prime q with q * q <= p
NoSmallDivisor(p, small) ==
    \A i \in 1..Len(small) : small[i] * small[i] > p \/ p % small[i] # 0

RECURSIVE SievedBetween(_, _, _)
SievedBetween(lo, hi, small) ==
    IF lo > hi THEN <<>>
    ELSE IF lo = hi THEN (IF NoSmallDivisor(lo, small) THEN <<lo>> ELSE <<>>)
    ELSE LET mid == (lo + hi) \div 2
         IN  SievedBetween(lo, mid, small) \o SievedBetween(mid + 1, hi, small)

\* the primes <= n in ascending order, sieved with the primes <= sqrt(n)
RECURSIVE PrimesUpTo(_)
PrimesUpTo(n) ==
    IF n < 2 THEN <<>>
    ELSE IF n < 4 THEN AsList([i \in 1..(n - 1) |-> i + 1])
    ELSE SievedBetween(2, n, PrimesUpTo(Isqrt(n)))

DefaultUpperBound == 2 ^ 16

DefaultPrimes == PrimesUpTo(DefaultUpperBound)

generate(upper_bound) ==
    IF upper_bound = DefaultUpperBound THEN DefaultPrimes ELSE PrimesUpTo(upper_bound)

(***************************************************************************)
(* PrimeFactorizationHelper and prime_factorization (euler/primes.py).     *)
(* A cache is the pair of class attributes [curr_upper_bound, _primes].    *)
(***************************************************************************)
update_prime_cache(upper_bound) ==
    [curr_upper_bound |-> upper_bound, _primes |-> generate(upper_bound)]

\* int(sqrt(num) + 1); sqrt is exact enough for the numbers at hand
SqrtPlusOne(num) == Isqrt(num) + 1

\* the test of line 27 written with != in place of <
CacheDiffers(bound, num) == bound # SqrtPlusOne(num)

CacheTooSmall(bound, num) == bound < SqrtPlusOne(num)

\* the while loop: (exponent, num) once prime no longer divides num
RECURSIVE DivideOut(_, _, _)
DivideOut(num, prime, exponent) ==
    IF num % prime = 0 THEN DivideOut(num \div prime, prime, exponent + 1)
    ELSE <<exponent, num>>

\* the for loop over cls._primes from index i on
RECURSIVE FactorLoop(_, _, _, _)
FactorLoop(primes, i, num, exponents) ==
    IF i > Len(primes) \/ primes[i] * primes[i] > num
    THEN [num |-> num, exponents |-> exponents]
    ELSE LET r == DivideOut(num, primes[i], 0)
         IN  FactorLoop(primes, i + 1, r[2], Append(exponents, r[1]))

SelectSeq2(s, keep) ==
    LET F[i \in 0..Len(s)] ==
            IF i = 0 THEN <<>>
            ELSE IF keep[i] THEN Append(F[i - 1], s[i]) ELSE F[i - 1]
    IN  F[Len(s)]

\* PrimeFactorizationHelper.prime_factorization: the cache it leaves and its result
Helper_prime_factorization(cache, num) ==
    LET cache2 == IF CacheTooSmall(cache.curr_upper_bound, num)
                  THEN update_prime_cache(SqrtPlusOne(num))
                  ELSE cache
        loop   == FactorLoop(cache2._primes, 1, num, <<>>)
        n      == Len(loop.exponents)
        keep   == AsList([i \in 1..n |-> loop.exponents[i] # 0])
        factors   == SelectSeq2(SubSeq(cache2._primes, 1, n), keep)
        exponents == SelectSeq2(loop.exponents, keep)
    IN  [cache |-> cache2,
         kind  |-> "return",
         value |-> IF loop.num # 1
                   THEN <<Append(factors, loop.num), Append(exponents, 1)>>
                   ELSE <<factors, exponents>>]

\* the module-level prime_factorization
Module_prime_factorization(cache, num) ==
    IF num < 1 THEN [cache |-> cache, kind |-> "ValueError", value |-> <<>>]
    ELSE Helper_prime_factorization(
             IF cache.curr_upper_bound < 0 THEN update_prime_cache(DefaultUpperBound)
             ELSE cache,
             num)

(***************************************************************************)
(* The program: a client calls the public functions one at a time and      *)
(* takes each result before the next call.                                 *)
(***************************************************************************)
MaxExp == 2

MaxNum == 26

Nines(n) == Rep("9", n)

\* operands: small numbers, leading zeros, full chunks of nines, several chunks
Operands ==
    { <<"0">>, <<"5">>, <<"1", "0">>, <<"1", "9">>, <<"0", "0", "7">>,
      <<"1", "0", "0", "0">>, <<"9", "9", "9">>, Nines(9), Nines(18), Nines(20),
      <<"2">> \o Rep("0", 36) }

SignedOperands == Operands \cup { <<"-", "5">> }

Exponents == { StrOfInt(IntOfSmall(n)) : n \in 0..MaxExp }

NoCall == [op |-> "none"]

Cache == [curr_upper_bound |-> curr_upper_bound, _primes |-> _primes]

Init ==
    /\ call = NoCall
    /\ _primes = <<>>
    /\ curr_upper_bound = -1

ReturnAdded(r) == Returned(r.str, <<"operate">>, r.ints, {})

ReturnMultiplied(r) == Returned(r.str, <<"multiply">>, r.ints, r.carries)

large_number_sum(a, b) ==
    /\ call = NoCall
    /\ call' = [op |-> "large_number_sum", a |-> a, b |-> b, out |-> ReturnAdded(add(a, b))]
    /\ UNCHANGED <<_primes, curr_upper_bound>>

large_number_diff(a, b) ==
    /\ call = NoCall
    /\ call' = [op |-> "large_number_diff", a |-> a, b |-> b, out |-> subtract(a, b)]
    /\ UNCHANGED <<_primes, curr_upper_bound>>

large_number_mul(a, b) ==
    /\ call = NoCall
    /\ call' = [op |-> "large_number_mul", a |-> a, b |-> b,
                out |-> ReturnMultiplied(multiply(a, b))]
    /\ UNCHANGED <<_primes, curr_upper_bound>>

large_number_pow(num, exp) ==
    /\ call = NoCall
    /\ call' = [op |-> "large_number_pow", a |-> num, b |-> exp,
                out |-> LargeNumberOpsHelper_large_number_pow(num, exp)]
    /\ UNCHANGED <<_primes, curr_upper_bound>>

prime_factorization(num) ==
    /\ call = NoCall
    /\ LET r == Module_prime_factorization(Cache, num)
       IN  /\ call' = [op |-> "prime_factorization", num |-> num,
                       out |-> [kind |-> r.kind, value |-> r.value]]
           /\ _primes' = r.cache._primes
           /\ curr_upper_bound' = r.cache.curr_upper_bound

PrimeFactorizationHelper_prime_factorization(num) ==
    /\ call = NoCall
    /\ LET r == Helper_prime_factorization(Cache, num)
       IN  /\ call' = [op |-> "PrimeFactorizationHelper.prime_factorization",
                       num |-> num, out |-> [kind |-> r.kind, value |-> r.value]]
           /\ _primes' = r.cache._primes
           /\ curr_upper_bound' = r.cache.curr_upper_bound

\* the caller takes the result
TakeResult ==
    /\ call # NoCall
    /\ call' = NoCall
    /\ UNCHANGED <<_primes, curr_upper_bound>>

NumericNext ==
    \/ \E a \in Operands, b \in Operands : large_number_sum(a, b)
    \/ \E a \in SignedOperands, b \in SignedOperands : large_number_diff(a, b)
    \/ \E a \in Operands, b \in Operands : large_number_mul(a, b)
    \/ \E num \in Operands, exp \in Exponents : large_number_pow(num, exp)

PrimesNext ==
    \/ \E num \in 0..MaxNum : prime_factorization(num)
    \/ \E num \in 1..MaxNum : PrimeFactorizationHelper_prime_factorization(num)

Next == NumericNext \/ PrimesNext \/ TakeResult

Spec == Init /\ [][Next]_vars

\* the arithmetic alone, and the factorization alone
SpecNumeric == Init /\ [][NumericNext \/ TakeResult]_vars

SpecPrimes == Init /\ [][PrimesNext \/ TakeResult]_vars

(***************************************************************************)
(* Properties.  call holds the pending call with its arguments and its     *)
(* outcome, so a property of a function is an invariant over call.         *)
(***************************************************************************)
\* the digits of s without an optional leading '-'
Unsigned(s) == IF StartsWithMinus(s) THEN Tail(s) ELSE s

IntAbs(x) == MkInt(FALSE, x.mag)

TwoTo63 == MkInt(FALSE, NatPow2(63))

\* x lies in the signed 64-bit range
FitsInt64(x) == IntLess(x, TwoTo63) /\ ~IntLess(x, IntNeg(TwoTo63))

NumericCalls ==
    {"large_number_sum", "large_number_diff", "large_number_mul", "large_number_pow"}

\* subtract was called with two operands without sign
UnsignedDiff ==
    call.op = "large_number_diff" /\ ~StartsWithMinus(call.a) /\ ~StartsWithMinus(call.b)

\* the chunks total + carry that add(a, b) formats
EmittedByAdd(chunks) == OperateSums(OpChunksZip("add", chunks[1], chunks[2]))

AllBelowMod(sums) ==
    \A i \in 1..Len(sums) : IntLess(sums[i], IntPow10(FirstDegreeChunkSize))

\* C1: add(a, b) returns exactly the decimal representation of a + b, and
\* every chunk it emits (total + carry) is below 10^18.
C1_AddExact ==
    call.op = "large_number_sum" =>
        /\ call.out.kind = "return"
        /\ call.out.value = StrOfInt(IntAdd(IntOfStr(call.a), IntOfStr(call.b)))
        /\ AllBelowMod(EmittedByAdd(_make_chunks(FirstDegreeChunkSize, call.a, call.b)))

\* add("999999999999999999", "0") returns "1999999999999999999"
C1_FullChunkPlusZero ==
    /\ call.op = "large_number_sum"
    /\ call.a = Nines(18)
    /\ call.b = <<"0">>
    /\ call.out.value = <<"1">> \o Nines(18)

\* C2: for operands without sign, the digits of subtract(a, b), after an
\* optional leading '-' is removed, are the decimal representation of |a - b|.
C2_SubtractMagnitude ==
    UnsignedDiff =>
        /\ call.out.kind = "return"
        /\ Unsigned(call.out.value)
             = StrOfInt(IntAbs(IntSub(IntOfStr(call.a), IntOfStr(call.b))))

\* subtract("10", "19") returns "-00000000000000001999999999999999991"
C2_SameLeadingDigit ==
    /\ call.op = "large_number_diff"
    /\ call.a = <<"1", "0">>
    /\ call.b = <<"1", "9">>
    /\ call.out.value = <<"-">> \o Rep("0", 16) \o <<"1">> \o Nines(17) \o <<"1">>

\* C3: multiply(a, b) returns exactly the decimal representation of a * b.
C3_MultiplyExact ==
    call.op = "large_number_mul" =>
        /\ call.out.kind = "return"
        /\ call.out.value = StrOfInt(IntMul(IntOfStr(call.a), IntOfStr(call.b)))

\* multiply of twenty nines by twenty nines does not return 99999999999999999998
\* followed by nineteen zeros and a one
C3_TwentyNinesSquared ==
    /\ call.op = "large_number_mul"
    /\ call.a = Nines(20)
    /\ call.b = Nines(20)
    /\ call.out.kind = "return"
    /\ call.out.value # Nines(19) \o <<"8">> \o Rep("0", 19) \o <<"1">>

\* C4: for operands without sign, subtract(a, b) returns a string, and that
\* string starts with '-' exactly when a < b as numbers; this includes operands
\* of equal stripped length with the same leading digit and operands equal to zero.
C4_SignIffSmaller ==
    UnsignedDiff =>
        /\ call.out.kind = "return"
        /\ StartsWithMinus(call.out.value) <=> IntLess(IntOfStr(call.a), IntOfStr(call.b))

\* subtract("0", "0") raises IndexError
C4_ZeroMinusZero ==
    /\ call.op = "large_number_diff"
    /\ call.a = <<"0">>
    /\ call.b = <<"0">>
    /\ call.out.kind = "IndexError"

\* C5: every integer computed per chunk by add, subtract and multiply (also
\* within large_number_pow) lies in the signed 64-bit range, and the running
\* carry of _mul_with_chunk stays below 10^9.
C5_ChunkIntegersFit ==
    call.op \in NumericCalls =>
        /\ \A x \in call.out.ints : FitsInt64(x)
        /\ \A c \in call.out.carries : IntLess(c, IntPow10(9))

\* a multiplication with a chunk product of at least 10^17 and a carry of at
\* least 10^8
C5_LargeChunkProduct ==
    /\ call.op = "large_number_mul"
    /\ \E x \in call.out.ints : ~IntLess(x, IntPow10(17))
    /\ \E c \in call.out.carries : ~IntLess(c, IntPow10(8))

\* C6: subtract(a, b) raises ValueError whenever a or b starts with '-'; it
\* does so within _check_non_negative, before _is_smaller and operate are
\* called, so no string is returned and no chunk is computed.
C6_NegativeRejected ==
    (call.op = "large_number_diff" /\ (StartsWithMinus(call.a) \/ StartsWithMinus(call.b))) =>
        /\ call.out.kind = "ValueError"
        /\ call.out.value = <<>>
        /\ call.out.ints = {}
        /\ \A i \in 1..Len(call.out.steps) : call.out.steps[i] = "_check_non_negative"

\* only the second operand carries a sign, and the call is rejected
C6_SecondOperandNegative ==
    /\ call.op = "large_number_diff"
    /\ ~StartsWithMinus(call.a)
    /\ StartsWithMinus(call.b)
    /\ call.out.kind = "ValueError"
    /\ Len(call.out.steps) = 2

\* C7: large_number_pow(a, "0") returns "1" for every non-zero a.
C7_PowZeroIsOne ==
    (call.op = "large_number_pow" /\ call.b = <<"0">> /\ IntOfStr(call.a) # IntZero) =>
        /\ call.out.kind = "return"
        /\ call.out.value = <<"1">>

\* large_number_pow("5", "0") raises TypeError
C7_FiveToTheZero ==
    /\ call.op = "large_number_pow"
    /\ call.a = <<"5">>
    /\ call.b = <<"0">>
    /\ call.out.kind = "TypeError"

\* C8: multiply(a, "0") returns the one-character string "0".
C8_MultiplyByZero ==
    (call.op = "large_number_mul" /\ call.b = <<"0">>) =>
        /\ call.out.kind = "return"
        /\ call.out.value = <<"0">>

\* multiply("5", "0") returns the empty string
C8_FiveTimesZero ==
    /\ call.op = "large_number_mul"
    /\ call.a = <<"5">>
    /\ call.b = <<"0">>
    /\ call.out.value = <<>>

\* C9: multiply(a, b) and multiply(b, a) return the same string.
C9_MultiplyCommutes ==
    call.op = "large_number_mul" => call.out.value = multiply(call.b, call.a).str

\* multiply of eighteen nines by nine nines returns the product, the call with
\* the operands exchanged does not
C9_NinesExchanged ==
    /\ call.op = "large_number_mul"
    /\ call.a = Nines(18)
    /\ call.b = Nines(9)
    /\ call.out.value = StrOfInt(IntMul(IntOfStr(call.a), IntOfStr(call.b)))
    /\ multiply(call.b, call.a).str # call.out.value

FactorizationCalls == {"prime_factorization", "PrimeFactorizationHelper.prime_factorization"}

\* a factorization of num >= 1 has run; the factor loop leaves the cache as it
\* found it, so the cache of this state is the cache the loop started with
FactorLoopRan == call.op \in FactorizationCalls /\ call.out.kind = "return"

\* C10: over any sequence of factorization calls curr_upper_bound never
\* decreases, and when the factor loop of a call starts the bound is at least
\* int(sqrt(num)) + 1 and _primes is the generator's output for that bound.
C10_CacheBound ==
    /\ [][curr_upper_bound' >= curr_upper_bound]_vars
    /\ [](FactorLoopRan =>
            /\ curr_upper_bound >= SqrtPlusOne(call.num)
            /\ _primes = generate(curr_upper_bound))

\* a call has raised the bound to exactly int(sqrt(num)) + 1, above the bound
\* that the smallest numbers need
C10_CacheGrown ==
    /\ FactorLoopRan
    /\ curr_upper_bound = SqrtPlusOne(call.num)
    /\ curr_upper_bound > SqrtPlusOne(1)
    /\ _primes = generate(curr_upper_bound)
    /\ _primes # <<>>

====
